---- MODULE Spec2Model ----
(***************************************************************************)
(* The chart overlay engine of the TradingViewChart component              *)
(* (web/src/components/TradingViewChart.tsx).  The component owns a chart  *)
(* surface, two base series (candles, volume) and one registry of series   *)
(* handles per overlay category.  Every React effect of the component is   *)
(* an operator on a record of the component's refs and of the surface; an  *)
(* event (data arrival, toggle, resize, prop change, timer, unmount) runs  *)
(* the effects whose dependencies it changed, in declaration order.        *)
(***************************************************************************)
EXTENDS Integers, Sequences, FiniteSets, TLC

VARIABLES
    mounted,              \* the component instance is mounted
    symbol, height, theme,\* props
    candles, indicators,  \* props: [def, val]; def = FALSE is JS undefined
    winWidth,             \* window.innerWidth
    containerRef,         \* chartContainerRef.current: a div id, or Null
    chartRef,             \* chartRef.current: [id, el, width], or NoChart
    surface,              \* series live on the current chart: handle -> series
    markers,              \* markers set on the live candle series
    hasSetMarkers,        \* the host series object has a setMarkers method
    candleSeriesRef, volumeSeriesRef,
    maSeriesRefs, bbSeriesRefs, sarSeriesRef, vwapSeriesRef, pivotSeriesRefs,
    fractalMarkersRef, strokeLinesRef, segmentLinesRef, centralBankAreasRef,
    indicatorVisibility,  \* useState: key -> BOOLEAN
    timer,                \* the pending fractal setTimeout and its closure
    now,                  \* Date.now(), in seconds
    tzOffset,             \* local midnight minus UTC midnight, in seconds
    nextId,               \* identity of the next object created
    log,                  \* surface calls made by the last event, in order
    last,                 \* the last event and the state it started from
    events                \* number of events handled so far

vars == << mounted, symbol, height, theme, candles, indicators, winWidth,
           containerRef, chartRef, surface, markers, hasSetMarkers,
           candleSeriesRef, volumeSeriesRef, maSeriesRefs, bbSeriesRefs,
           sarSeriesRef, vwapSeriesRef, pivotSeriesRefs, fractalMarkersRef,
           strokeLinesRef, segmentLinesRef, centralBankAreasRef,
           indicatorVisibility, timer, now, tzOffset, nextId, log, last, events >>

-----------------------------------------------------------------------------
(* Bounds of the model *)

MaxEvents == 3        \* events handled after mount
MaxCandles == 10      \* length of the long candle sequence
ShortLen == 3         \* length of the short candle sequence
LongLen == 60         \* length of the daily-bar sequence of the end-to-end scenario
TimeLen == 3          \* length of the candle sequences with mixed time strings

(* Values of the program *)

Null == 0             \* a ref holding null; object identities start at 1
Undefined == -1000    \* a field that is JS undefined
MobileWidth == 768
MobileHeight == 300
DesktopHeight == 500

Keys == { "ma5", "ma10", "ma20", "ma50", "bb", "sar", "vwap", "pivotPoints",
          "fractals", "strokes", "segments", "centralBanks" }
ChanlunKeys == { "fractals", "strokes", "segments", "centralBanks" }

NoChart == [id |-> Null, el |-> Null, width |-> 0]
NoTimer == [pending |-> FALSE, candles |-> <<>>, fractals |-> <<>>, visible |-> FALSE]
MAPeriods == <<5, 10, 20, 50>>
BBKeys == <<"upper", "middle", "lower">>
PivotKeys == <<"pivot", "r1", "r2", "r3", "s1", "s2", "s3">>
EmptyMap == << >>

-----------------------------------------------------------------------------
(* Values written to a series.  JS numbers are modelled exactly, as        *)
(* fractions: a scalar v is v/1 and a mean is sum/period.                   *)

Num(v) == [num |-> v, den |-> 1]
\* the mean cut to a whole number
AvgTruncated(sum, period) == [num |-> sum \div period, den |-> 1]

\* sum / period
Avg(sum, period) == [num |-> sum, den |-> period]

(* parseTime.  A time string is [fmt, y, m, d, hh], the day and the hour   *)
(* it names.  Which strings the Date constructor accepts beyond the ISO    *)
(* format is left to the engine: "iso" is a string it accepts (the UTC     *)
(* instant), "ymd" one it rejects that splits into three parts on '-'      *)
(* ("1970-1-2", "1970-01-02 09:00:00"), "bad" is neither.                  *)

IsLeap(y) == (y % 4 = 0 /\ y % 100 # 0) \/ y % 400 = 0
DaysInYear(y) == IF IsLeap(y) THEN 366 ELSE 365
DaysBeforeMonth(y, m) ==
    LET cum == <<0, 31, 59, 90, 120, 151, 181, 212, 243, 273, 304, 334>>
    IN cum[m] + (IF m > 2 /\ IsLeap(y) THEN 1 ELSE 0)
RECURSIVE DaysBeforeYear(_)
DaysBeforeYear(y) == IF y <= 1970 THEN 0 ELSE DaysInYear(y - 1) + DaysBeforeYear(y - 1)
\* new Date(year, monthIndex, day): monthIndex and day overflow into the next units
DateOf(y, mi, d) == DaysBeforeYear(y + (mi \div 12)) + DaysBeforeMonth(y + (mi \div 12), (mi % 12) + 1) + (d - 1)

\* parseInt(parts[2]) reads the leading digits of "DD" or "DD hh:mm:ss"
parseTimeAt(timeStr, clock, offset) ==
    IF timeStr.fmt = "iso"
    THEN DateOf(timeStr.y, timeStr.m - 1, timeStr.d) * 86400 + timeStr.hh * 3600
    ELSE IF timeStr.fmt = "ymd"
         THEN DateOf(timeStr.y, timeStr.m - 1, timeStr.d) * 86400 + offset
         ELSE clock

parseTime(timeStr) == parseTimeAt(timeStr, now, tzOffset)

-----------------------------------------------------------------------------
(* The snapshots the REST client can deliver.  A list field that is absent *)
(* is the empty sequence: every effect treats an absent list and an empty  *)
(* one alike.                                                               *)

\* the i-th day of 1970, as "1970-MM-DD"
Day(i) ==
    IF i <= 31 THEN [fmt |-> "iso", y |-> 1970, m |-> 1, d |-> i, hh |-> 0]
    ELSE IF i <= 59 THEN [fmt |-> "iso", y |-> 1970, m |-> 2, d |-> i - 31, hh |-> 0]
    ELSE [fmt |-> "iso", y |-> 1970, m |-> 3, d |-> i - 59, hh |-> 0]

Bar(i, base) ==
    LET o == base + ((i * 5) % 7)
        c == base + ((i * 3) % 7)
    IN [time |-> Day(i), open |-> o, close |-> c,
        high |-> (IF o > c THEN o ELSE c) + 1,
        low |-> (IF o > c THEN c ELSE o) - 1,
        volume |-> 100 * i]

Bars(n, base) == [i \in 1..n |-> Bar(i, base)]

IndFull ==
    [ma5 |-> 12, ma10 |-> Undefined, ma20 |-> 14, ma50 |-> Undefined,
     bb_upper |-> 20, bb_middle |-> 15, bb_lower |-> 10,
     bb_upper_series |-> << >>, bb_middle_series |-> << >>, bb_lower_series |-> << >>,
     sar |-> 9, sar_signal |-> "bullish", vwap |-> 14,
     pivot |-> 15, pivot_r1 |-> 17, pivot_r2 |-> Undefined, pivot_r3 |-> Undefined,
     pivot_s1 |-> 11, pivot_s2 |-> Undefined, pivot_s3 |-> Undefined,
     fractals |-> << [index |-> 1, price |-> 18, type |-> "top"],
                     [index |-> MaxCandles, price |-> 17, type |-> "top"],
                     [index |-> 2, price |-> 9, type |-> "bottom"],
                     [index |-> 4, price |-> 19, type |-> "top"] >>,
     strokes |-> << [start_index |-> 0, end_index |-> 2, start_price |-> 11,
                     end_price |-> 16, type |-> "up"],
                    [start_index |-> 3, end_index |-> 3, start_price |-> 12,
                     end_price |-> 12, type |-> "down"],
                    [start_index |-> 2, end_index |-> MaxCandles + 4, start_price |-> 16,
                     end_price |-> 10, type |-> "down"],
                    [start_index |-> 4, end_index |-> 1, start_price |-> 13,
                     end_price |-> 0, type |-> "down"],
                    [start_index |-> 2, end_index |-> 4, start_price |-> 16,
                     end_price |-> 12, type |-> "down"] >>,
     segments |-> << [start_index |-> 0, end_index |-> 4, start_price |-> 0,
                      end_price |-> 17, type |-> "up"],
                     [start_index |-> 4, end_index |-> 4, start_price |-> 17,
                      end_price |-> 17, type |-> "down"],
                     [start_index |-> 0 - 1, end_index |-> 2, start_price |-> 14,
                      end_price |-> 15, type |-> "up"],
                     [start_index |-> 4, end_index |-> 6, start_price |-> 17,
                      end_price |-> 11, type |-> "down"] >>,
     central_banks |-> << [start_index |-> 1, end_index |-> 3, high |-> 16, low |-> 12],
                          [start_index |-> 0, end_index |-> 1, high |-> Undefined, low |-> 11],
                          [start_index |-> 4, end_index |-> 2, high |-> 15, low |-> 13] >>,
     trend_type |-> "up"]

IndAlt ==
    [ma5 |-> 22, ma10 |-> Undefined, ma20 |-> Undefined, ma50 |-> Undefined,
     bb_upper |-> 30, bb_middle |-> Undefined, bb_lower |-> 21,
     bb_upper_series |-> << >>, bb_middle_series |-> << >>, bb_lower_series |-> << >>,
     sar |-> Undefined, sar_signal |-> "", vwap |-> Undefined,
     pivot |-> 25, pivot_r1 |-> Undefined, pivot_r2 |-> Undefined, pivot_r3 |-> Undefined,
     pivot_s1 |-> Undefined, pivot_s2 |-> Undefined, pivot_s3 |-> Undefined,
     fractals |-> << [index |-> 0, price |-> 28, type |-> "bottom"] >>,
     strokes |-> << [start_index |-> 0, end_index |-> 1, start_price |-> 21,
                     end_price |-> 26, type |-> "up"] >>,
     segments |-> << >>,
     central_banks |-> << [start_index |-> 0, end_index |-> 2, high |-> 27, low |-> 22] >>,
     trend_type |-> "range"]

\* sixty daily bars with every moving-average scalar and the Bollinger
\* bands as scalars and as full arrays; three fractals in range, one not
IndLong ==
    [ma5 |-> 32, ma10 |-> 33, ma20 |-> 34, ma50 |-> 35,
     bb_upper |-> 44, bb_middle |-> 36, bb_lower |-> 28,
     bb_upper_series |-> [i \in 1..LongLen |-> 40 + (i % 5)],
     bb_middle_series |-> [i \in 1..LongLen |-> 33 + (i % 4)],
     bb_lower_series |-> [i \in 1..LongLen |-> 25 + (i % 3)],
     sar |-> Undefined, sar_signal |-> "", vwap |-> 31,
     pivot |-> Undefined, pivot_r1 |-> Undefined, pivot_r2 |-> Undefined, pivot_r3 |-> Undefined,
     pivot_s1 |-> Undefined, pivot_s2 |-> Undefined, pivot_s3 |-> Undefined,
     fractals |-> << [index |-> 7, price |-> 38, type |-> "top"],
                     [index |-> 21, price |-> 29, type |-> "bottom"],
                     [index |-> LongLen, price |-> 37, type |-> "top"],
                     [index |-> 40, price |-> 39, type |-> "top"] >>,
     strokes |-> << >>, segments |-> << >>, central_banks |-> << >>,
     trend_type |-> ""]

Absent == [def |-> FALSE, val |-> << >>]
Given(v) == [def |-> TRUE, val |-> v]

Snapshot(name) ==
    CASE name = "full"  -> [candles |-> Given(Bars(MaxCandles, 10)), indicators |-> Given(IndFull)]
      [] name = "short" -> [candles |-> Given(Bars(ShortLen, 20)), indicators |-> Given(IndAlt)]
      [] name = "long"  -> [candles |-> Given(Bars(LongLen, 30)), indicators |-> Given(IndLong)]
      [] name = "empty" -> [candles |-> Given(<< >>), indicators |-> Given(IndFull)]
      [] name = "none"  -> [candles |-> Absent, indicators |-> Absent]

SnapshotNames == { "full", "short", "empty", "none" }
\* the snapshots of the end-to-end scenario
E2ENames == { "long", "short", "empty" }

-----------------------------------------------------------------------------
(* The chart surface (lightweight-charts), as the component uses it.       *)

Live(s) == DOMAIN s.surface

\* chart.addSeries(kind, options): a new series object, live on the chart
addSeries(s, cat, key) ==
    [s EXCEPT !.surface = (s.nextId :> [cat |-> cat, key |-> key, data |-> << >>]) @@ @,
              !.nextId = @ + 1,
              !.log = Append(@, [op |-> "add", cat |-> cat, h |-> s.nextId])]

\* series.setData(points); a series of a chart that was removed shows nothing
setData(s, h, data) ==
    IF h \in Live(s) THEN [s EXCEPT !.surface[h].data = data] ELSE s

\* chart.removeSeries(series) raises when the series is not one of the chart
removeSeriesThrows(s, h) == h \notin Live(s)

removeSeries(s, h, cat) ==
    IF removeSeriesThrows(s, h)
    THEN [s EXCEPT !.log = Append(@, [op |-> "throw", cat |-> cat, h |-> h])]
    ELSE [s EXCEPT !.surface = [x \in Live(s) \ {h} |-> s.surface[x]],
                   !.log = Append(@, [op |-> "remove", cat |-> cat, h |-> h])]

\* series.forEach(series => { try { removeSeries(series) } catch {} })
RECURSIVE removeEach(_, _, _)
removeEach(s, hs, cat) ==
    IF hs = << >> THEN s
    ELSE removeEach(removeSeries(s, Head(hs), cat), Tail(hs), cat)

\* the values of a Map, in insertion order (the order in which the effect sets them)
RECURSIVE MapValues(_, _)
MapValues(m, order) ==
    IF order = << >> THEN << >>
    ELSE (IF Head(order) \in DOMAIN m THEN << m[Head(order)] >> ELSE << >>)
         \o MapValues(m, Tail(order))

MapSet(m, k, h) == (k :> h) @@ m

-----------------------------------------------------------------------------
(* Data derived from the candles *)

\* candles[i] of the source is cs[i + 1]
At(cs, i) == cs[i + 1]
InRange(cs, i) == i >= 0 /\ i < Len(cs)

\* one point only, at the last candle
BroadcastLast(cs, v) ==
    IF cs = << >> THEN << >>
    ELSE << [time |-> parseTime(cs[Len(cs)].time), value |-> Num(v)] >>

\* candles.map(candle => ({ time: parseTime(candle.time), value }))
Broadcast(cs, v) ==
    [i \in 1..Len(cs) |-> [time |-> parseTime(cs[i].time), value |-> Num(v)]]

formattedData(cs) ==
    [i \in 1..Len(cs) |->
        [time |-> parseTime(cs[i].time), open |-> cs[i].open, high |-> cs[i].high,
         low |-> cs[i].low, close |-> cs[i].close]]

volumeData(cs) ==
    [i \in 1..Len(cs) |->
        [time |-> parseTime(cs[i].time), value |-> cs[i].volume,
         color |-> IF cs[i].close >= cs[i].open THEN "#26a69a26" ELSE "#ef535026"]]

\* candles.slice(from, to).reduce((acc, c) => acc + c.close, 0)
RECURSIVE sumClose(_, _, _)
sumClose(cs, from, to) ==
    IF from >= to THEN 0 ELSE At(cs, from).close + sumClose(cs, from + 1, to)

\* for (let i = start; i < candles.length; i++) maData.push(...)
RECURSIVE maLoop(_, _, _)
maLoop(cs, period, i) ==
    IF i >= Len(cs) THEN << >>
    ELSE << [time |-> parseTime(At(cs, i).time),
             value |-> Avg(sumClose(cs, i - period + 1, i + 1), period)] >>
         \o maLoop(cs, period, i + 1)

\* a loop that starts one candle late
maDataLate(cs, period) == maLoop(cs, period, period)

maData(cs, period) == maLoop(cs, period, period - 1)

-----------------------------------------------------------------------------
(* The effects.  s is the record of the refs, the surface and the log; c   *)
(* and ind are the candles and indicators props, vis the visibility state. *)

\* the guard every overlay effect starts with
overlayGuard(s, c, ind) ==
    s.chartRef.id = Null \/ ~ind.def \/ ~c.def \/ Len(c.val) = 0

(* useEffect (init), cleanup: chart.remove() releases every series *)
cleanupChart(s) ==
    IF s.chartRef.id = Null THEN s
    ELSE [s EXCEPT !.surface = << >>,
                   !.markers = << >>,
                   !.chartRef = NoChart,
                   !.log = Append(@, [op |-> "destroy", cat |-> "chart", h |-> s.chartRef.id])]

(* useEffect (init), body: createChart and the two base series *)
initChart(s, container, width) ==
    IF container = Null THEN s
    ELSE LET s1 == [s EXCEPT !.chartRef = [id |-> s.nextId, el |-> container, width |-> width],
                             !.nextId = @ + 1]
             s2 == addSeries(s1, "candle", "candle")
             s3 == [s2 EXCEPT !.candleSeriesRef = s2.nextId - 1]
             s4 == addSeries(s3, "volume", "volume")
         IN [s4 EXCEPT !.volumeSeriesRef = s4.nextId - 1]

(* useEffect (candles) *)
updateCandles(s, c) ==
    IF s.candleSeriesRef = Null \/ ~c.def \/ Len(c.val) = 0 THEN s
    ELSE LET s1 == setData(s, s.candleSeriesRef, formattedData(c.val))
         IN IF s1.volumeSeriesRef # Null
            THEN setData(s1, s1.volumeSeriesRef, volumeData(c.val))
            ELSE s1

(* useEffect (moving averages) *)
maValue(ind, period) ==
    CASE period = 5 -> ind.ma5 [] period = 10 -> ind.ma10
      [] period = 20 -> ind.ma20 [] period = 50 -> ind.ma50
maVisible(vis, period) ==
    CASE period = 5 -> vis.ma5 [] period = 10 -> vis.ma10
      [] period = 20 -> vis.ma20 [] period = 50 -> vis.ma50

\* the body without the test maData.length > 0
drawOneMAEmpty(s, cs, period, visible) ==
    IF ~visible THEN s
    ELSE LET s1 == addSeries(s, "ma", period)
             h == s1.nextId - 1
         IN [setData(s1, h, maData(cs, period)) EXCEPT !.maSeriesRefs = MapSet(@, period, h)]

\* the body of maPeriods.forEach for one period
drawOneMA(s, cs, period, visible) ==
    IF ~visible THEN s
    ELSE LET data == maData(cs, period)
         IN IF Len(data) > 0 /\ s.chartRef.id # Null
            THEN LET s1 == addSeries(s, "ma", period)
                     h == s1.nextId - 1
                 IN [setData(s1, h, data) EXCEPT !.maSeriesRefs = MapSet(@, period, h)]
            ELSE s

RECURSIVE drawEachMA(_, _, _, _, _)
drawEachMA(s, cs, ind, vis, periods) ==
    IF periods = << >> THEN s
    ELSE LET p == Head(periods)
             s1 == IF maValue(ind, p) # Undefined
                   THEN drawOneMA(s, cs, p, maVisible(vis, p))
                   ELSE s
         IN drawEachMA(s1, cs, ind, vis, Tail(periods))

drawMA(s, c, ind, vis) ==
    IF overlayGuard(s, c, ind) THEN s
    ELSE LET s1 == removeEach(s, MapValues(s.maSeriesRefs, MAPeriods), "ma")
             s2 == [s1 EXCEPT !.maSeriesRefs = EmptyMap]
         IN drawEachMA(s2, c.val, ind.val, vis, MAPeriods)

(* useEffect (Bollinger) *)
bbValue(ind, key) ==
    CASE key = "upper" -> ind.bb_upper [] key = "middle" -> ind.bb_middle
      [] key = "lower" -> ind.bb_lower

RECURSIVE drawEachBB(_, _, _, _)
drawEachBB(s, cs, ind, keys) ==
    IF keys = << >> THEN s
    ELSE LET s1 == addSeries(s, "bb", Head(keys))
             h == s1.nextId - 1
             s2 == [setData(s1, h, Broadcast(cs, bbValue(ind, Head(keys))))
                       EXCEPT !.bbSeriesRefs = MapSet(@, Head(keys), h)]
         IN drawEachBB(s2, cs, ind, Tail(keys))

\* the effect drawing the three bands as soon as one field is defined
drawBBAnyField(s, c, ind, vis) ==
    IF overlayGuard(s, c, ind) THEN s
    ELSE LET s1 == removeEach(s, MapValues(s.bbSeriesRefs, BBKeys), "bb")
             s2 == [s1 EXCEPT !.bbSeriesRefs = EmptyMap]
         IN IF ~vis.bb THEN s2
            ELSE IF ind.val.bb_upper # Undefined \/ ind.val.bb_middle # Undefined
                    \/ ind.val.bb_lower # Undefined
                 THEN drawEachBB(s2, c.val, ind.val, BBKeys)
                 ELSE s2

drawBB(s, c, ind, vis) ==
    IF overlayGuard(s, c, ind) THEN s
    ELSE LET s1 == removeEach(s, MapValues(s.bbSeriesRefs, BBKeys), "bb")
             s2 == [s1 EXCEPT !.bbSeriesRefs = EmptyMap]
         IN IF ~vis.bb THEN s2
            ELSE IF ind.val.bb_upper # Undefined /\ ind.val.bb_middle # Undefined
                    /\ ind.val.bb_lower # Undefined
                 THEN drawEachBB(s2, c.val, ind.val, BBKeys)
                 ELSE s2

(* useEffect (SAR): the ref is set to null inside the try, after removeSeries *)
clearSAR(s) ==
    IF s.sarSeriesRef # Null /\ s.chartRef.id # Null
    THEN IF removeSeriesThrows(s, s.sarSeriesRef)
         THEN removeSeries(s, s.sarSeriesRef, "sar")
         ELSE [removeSeries(s, s.sarSeriesRef, "sar") EXCEPT !.sarSeriesRef = Null]
    ELSE s

\* the effect writing the SAR points to the base candle series
drawSAROnBase(s, c, ind, vis) ==
    IF overlayGuard(s, c, ind) THEN s
    ELSE LET s1 == clearSAR(s)
         IN IF ~vis.sar \/ ind.val.sar = Undefined THEN s1
            ELSE setData(s1, s1.candleSeriesRef, Broadcast(c.val, ind.val.sar))

drawSAR(s, c, ind, vis) ==
    IF overlayGuard(s, c, ind) THEN s
    ELSE LET s1 == clearSAR(s)
         IN IF ~vis.sar \/ ind.val.sar = Undefined THEN s1
            ELSE LET s2 == addSeries(s1, "sar", "sar")
                     h == s2.nextId - 1
                 IN [setData(s2, h, Broadcast(c.val, ind.val.sar)) EXCEPT !.sarSeriesRef = h]

(* useEffect (VWAP) *)
clearVWAP(s) ==
    IF s.vwapSeriesRef # Null /\ s.chartRef.id # Null
    THEN IF removeSeriesThrows(s, s.vwapSeriesRef)
         THEN removeSeries(s, s.vwapSeriesRef, "vwap")
         ELSE [removeSeries(s, s.vwapSeriesRef, "vwap") EXCEPT !.vwapSeriesRef = Null]
    ELSE s

drawVWAP(s, c, ind, vis) ==
    IF overlayGuard(s, c, ind) THEN s
    ELSE LET s1 == clearVWAP(s)
         IN IF ~vis.vwap \/ ind.val.vwap = Undefined THEN s1
            ELSE LET s2 == addSeries(s1, "vwap", "vwap")
                     h == s2.nextId - 1
                 IN [setData(s2, h, Broadcast(c.val, ind.val.vwap)) EXCEPT !.vwapSeriesRef = h]

(* useEffect (pivot points) *)
pivotValue(ind, key) ==
    CASE key = "pivot" -> ind.pivot
      [] key = "r1" -> ind.pivot_r1 [] key = "r2" -> ind.pivot_r2 [] key = "r3" -> ind.pivot_r3
      [] key = "s1" -> ind.pivot_s1 [] key = "s2" -> ind.pivot_s2 [] key = "s3" -> ind.pivot_s3

RECURSIVE drawEachPivot(_, _, _, _)
drawEachPivot(s, cs, ind, keys) ==
    IF keys = << >> THEN s
    ELSE LET k == Head(keys)
             s1 == IF pivotValue(ind, k) # Undefined
                   THEN LET a == addSeries(s, "pivot", k)
                            h == a.nextId - 1
                        IN [setData(a, h, Broadcast(cs, pivotValue(ind, k)))
                               EXCEPT !.pivotSeriesRefs = MapSet(@, k, h)]
                   ELSE s
         IN drawEachPivot(s1, cs, ind, Tail(keys))

drawPivot(s, c, ind, vis) ==
    IF overlayGuard(s, c, ind) THEN s
    ELSE LET s1 == removeEach(s, MapValues(s.pivotSeriesRefs, PivotKeys), "pivot")
             s2 == [s1 EXCEPT !.pivotSeriesRefs = EmptyMap]
         IN IF ~vis.pivotPoints THEN s2
            ELSE drawEachPivot(s2, c.val, ind.val, PivotKeys)

(* useEffect (fractals): the cleanup clears the pending timer, the body    *)
(* schedules a new one that closes over this render's props and state      *)
scheduleFractals(s, c, ind, vis) ==
    IF s.candleSeriesRef = Null \/ ~ind.def \/ ~c.def \/ Len(c.val) = 0
    THEN [s EXCEPT !.timer = NoTimer]
    ELSE [s EXCEPT !.timer = [pending |-> TRUE, candles |-> c.val,
                              fractals |-> ind.val.fractals, visible |-> vis.fractals]]

\* series.setMarkers(markers)
setMarkers(s, h, ms) == IF h \in Live(s) THEN [s EXCEPT !.markers = ms] ELSE s

markerOf(cs, fractal) ==
    LET top == fractal.type = "top"
    IN [time |-> parseTime(At(cs, fractal.index).time),
        position |-> IF top THEN "aboveBar" ELSE "belowBar",
        color |-> IF top THEN "#f44336" ELSE "#4caf50",
        shape |-> IF top THEN "arrowDown" ELSE "arrowUp"]

RECURSIVE fractalMarkers(_, _)
fractalMarkers(cs, fractals) ==
    IF fractals = << >> THEN << >>
    ELSE LET f == Head(fractals)
         IN (IF f.index # Undefined /\ f.price # Undefined /\ InRange(cs, f.index)
             THEN << markerOf(cs, f) >> ELSE << >>)
            \o fractalMarkers(cs, Tail(fractals))

\* the callback without the range test: an index past the end marks the last candle
fireTimerUnfiltered(s, capable) ==
    LET s0 == [s EXCEPT !.timer = NoTimer]
        cs == s.timer.candles
        fs == s.timer.fractals
        ms == [i \in 1..Len(fs) |->
                 markerOf(cs, [fs[i] EXCEPT !.index = IF InRange(cs, @) THEN @ ELSE Len(cs) - 1])]
    IN IF s0.candleSeriesRef = Null \/ ~capable THEN s0
       ELSE IF ~s.timer.visible
            THEN [setMarkers(s0, s0.candleSeriesRef, << >>) EXCEPT !.fractalMarkersRef = << >>]
            ELSE [setMarkers(s0, s0.candleSeriesRef, ms) EXCEPT !.fractalMarkersRef = ms]

\* the callback without the test typeof seriesAny.setMarkers !== 'function'
fireTimerUndetected(s, capable) ==
    LET s0 == [s EXCEPT !.timer = NoTimer]
    IN IF s0.candleSeriesRef = Null THEN s0
       ELSE IF ~s.timer.visible
            THEN [setMarkers(s0, s0.candleSeriesRef, << >>) EXCEPT !.fractalMarkersRef = << >>]
            ELSE LET ms == fractalMarkers(s.timer.candles, s.timer.fractals)
                 IN [setMarkers(s0, s0.candleSeriesRef, ms) EXCEPT !.fractalMarkersRef = ms]

\* the setTimeout callback
fireTimer(s, capable) ==
    LET s0 == [s EXCEPT !.timer = NoTimer]
    IN IF s0.candleSeriesRef = Null \/ ~capable THEN s0
       ELSE IF ~s.timer.visible
            THEN [setMarkers(s0, s0.candleSeriesRef, << >>) EXCEPT !.fractalMarkersRef = << >>]
            ELSE LET ms == fractalMarkers(s.timer.candles, s.timer.fractals)
                 IN [setMarkers(s0, s0.candleSeriesRef, ms) EXCEPT !.fractalMarkersRef = ms]

(* useEffect (strokes) *)
\* price || candle.close
priceOr(price, close) == IF price = Undefined \/ price = 0 THEN close ELSE price

lineData(startTime, endTime, startCandle, endCandle, line) ==
    << [time |-> startTime, value |-> Num(priceOr(line.start_price, startCandle.close))],
       [time |-> endTime, value |-> Num(priceOr(line.end_price, endCandle.close))] >>

\* the body without the test startTime >= endTime
drawOneStrokeUnordered(s, cs, stroke) ==
    IF stroke.start_index = Undefined \/ stroke.end_index = Undefined THEN s
    ELSE IF stroke.start_index = stroke.end_index THEN s
    ELSE IF ~(InRange(cs, stroke.start_index) /\ InRange(cs, stroke.end_index)) THEN s
    ELSE LET startCandle == At(cs, stroke.start_index)
             endCandle == At(cs, stroke.end_index)
             s1 == addSeries(s, "strokes", stroke.type)
             h == s1.nextId - 1
         IN [setData(s1, h, lineData(parseTime(startCandle.time), parseTime(endCandle.time),
                                     startCandle, endCandle, stroke))
               EXCEPT !.strokeLinesRef = Append(@, h)]

\* the body of indicators.strokes.forEach for one stroke
drawOneStroke(s, cs, stroke) ==
    IF stroke.start_index = Undefined \/ stroke.end_index = Undefined THEN s
    ELSE IF stroke.start_index = stroke.end_index THEN s
    ELSE IF ~(InRange(cs, stroke.start_index) /\ InRange(cs, stroke.end_index)) THEN s
    ELSE LET startCandle == At(cs, stroke.start_index)
             endCandle == At(cs, stroke.end_index)
             startTime == parseTime(startCandle.time)
             endTime == parseTime(endCandle.time)
         IN IF startTime >= endTime THEN s
            ELSE LET s1 == addSeries(s, "strokes", stroke.type)
                     h == s1.nextId - 1
                 IN [setData(s1, h, lineData(startTime, endTime, startCandle, endCandle, stroke))
                       EXCEPT !.strokeLinesRef = Append(@, h)]

RECURSIVE drawEachStroke(_, _, _)
drawEachStroke(s, cs, strokes) ==
    IF strokes = << >> THEN s
    ELSE drawEachStroke(drawOneStroke(s, cs, Head(strokes)), cs, Tail(strokes))

drawStrokes(s, c, ind, vis) ==
    IF overlayGuard(s, c, ind) THEN s
    ELSE LET s1 == removeEach(s, s.strokeLinesRef, "strokes")
             s2 == [s1 EXCEPT !.strokeLinesRef = << >>]
         IN IF ~vis.strokes THEN s2
            ELSE drawEachStroke(s2, c.val, ind.val.strokes)

(* useEffect (segments) *)
drawOneSegment(s, cs, segment) ==
    IF segment.start_index = Undefined \/ segment.end_index = Undefined THEN s
    ELSE IF segment.start_index = segment.end_index THEN s
    ELSE IF ~(InRange(cs, segment.start_index) /\ InRange(cs, segment.end_index)) THEN s
    ELSE LET startCandle == At(cs, segment.start_index)
             endCandle == At(cs, segment.end_index)
             startTime == parseTime(startCandle.time)
             endTime == parseTime(endCandle.time)
         IN IF startTime >= endTime THEN s
            ELSE LET s1 == addSeries(s, "segments", segment.type)
                     h == s1.nextId - 1
                 IN [setData(s1, h, lineData(startTime, endTime, startCandle, endCandle, segment))
                       EXCEPT !.segmentLinesRef = Append(@, h)]

RECURSIVE drawEachSegment(_, _, _)
drawEachSegment(s, cs, segments) ==
    IF segments = << >> THEN s
    ELSE drawEachSegment(drawOneSegment(s, cs, Head(segments)), cs, Tail(segments))

drawSegments(s, c, ind, vis) ==
    IF overlayGuard(s, c, ind) THEN s
    ELSE LET s1 == removeEach(s, s.segmentLinesRef, "segments")
             s2 == [s1 EXCEPT !.segmentLinesRef = << >>]
         IN IF ~vis.segments THEN s2
            ELSE drawEachSegment(s2, c.val, ind.val.segments)

(* useEffect (central banks): both series are added to the chart before   *)
(* high and low are looked at                                              *)
RECURSIVE timeRange(_, _, _)
timeRange(cs, i, endIdx) ==
    IF i <= endIdx /\ i < Len(cs)
    THEN << parseTime(At(cs, i).time) >> \o timeRange(cs, i + 1, endIdx)
    ELSE << >>

\* a line that stops one candle before the end index
flatLineOpenEnded(times, v) == [i \in 1..(Len(times) - 1) |-> [time |-> times[i], value |-> Num(v)]]

\* timeRange.map(time => ({ time, value }))
flatLine(times, v) == [i \in 1..Len(times) |-> [time |-> times[i], value |-> Num(v)]]

drawOneCentralBank(s, cs, centralBank) ==
    IF centralBank.start_index = Undefined \/ centralBank.end_index = Undefined THEN s
    ELSE IF ~(InRange(cs, centralBank.start_index) /\ InRange(cs, centralBank.end_index)) THEN s
    ELSE LET s1 == addSeries(s, "centralBanks", "upper")
             upperSeries == s1.nextId - 1
             s2 == addSeries(s1, "centralBanks", "lower")
             lowerSeries == s2.nextId - 1
         IN IF centralBank.high # Undefined /\ centralBank.low # Undefined
            THEN LET times == timeRange(cs, centralBank.start_index, centralBank.end_index)
                     s3 == setData(s2, upperSeries, flatLine(times, centralBank.high))
                     s4 == setData(s3, lowerSeries, flatLine(times, centralBank.low))
                 IN [s4 EXCEPT !.centralBankAreasRef = @ \o << upperSeries, lowerSeries >>]
            ELSE s2

RECURSIVE drawEachCentralBank(_, _, _)
drawEachCentralBank(s, cs, banks) ==
    IF banks = << >> THEN s
    ELSE drawEachCentralBank(drawOneCentralBank(s, cs, Head(banks)), cs, Tail(banks))

drawCentralBanks(s, c, ind, vis) ==
    IF overlayGuard(s, c, ind) THEN s
    ELSE LET s1 == removeEach(s, s.centralBankAreasRef, "centralBanks")
             s2 == [s1 EXCEPT !.centralBankAreasRef = << >>]
         IN IF ~vis.centralBanks THEN s2
            ELSE drawEachCentralBank(s2, c.val, ind.val.central_banks)

\* hasChanlunData(): the four pattern buttons are rendered only when it holds
hasChanlunData(ind) ==
    ind.def /\ ( ind.val.fractals # << >> \/ ind.val.strokes # << >>
                 \/ ind.val.segments # << >> \/ ind.val.central_banks # << >>
                 \/ ind.val.trend_type # "" )

-----------------------------------------------------------------------------
(* The component's refs and the surface, as one record, and back *)

Cur ==
    [chartRef |-> chartRef, surface |-> surface, markers |-> markers,
     candleSeriesRef |-> candleSeriesRef, volumeSeriesRef |-> volumeSeriesRef,
     maSeriesRefs |-> maSeriesRefs, bbSeriesRefs |-> bbSeriesRefs,
     sarSeriesRef |-> sarSeriesRef, vwapSeriesRef |-> vwapSeriesRef,
     pivotSeriesRefs |-> pivotSeriesRefs, fractalMarkersRef |-> fractalMarkersRef,
     strokeLinesRef |-> strokeLinesRef, segmentLinesRef |-> segmentLinesRef,
     centralBankAreasRef |-> centralBankAreasRef,
     timer |-> timer, nextId |-> nextId, log |-> << >>]

\* the refs of a new component instance (useRef initial values)
Fresh(n) ==
    [chartRef |-> NoChart, surface |-> << >>, markers |-> << >>,
     candleSeriesRef |-> Null, volumeSeriesRef |-> Null,
     maSeriesRefs |-> EmptyMap, bbSeriesRefs |-> EmptyMap,
     sarSeriesRef |-> Null, vwapSeriesRef |-> Null,
     pivotSeriesRefs |-> EmptyMap, fractalMarkersRef |-> << >>,
     strokeLinesRef |-> << >>, segmentLinesRef |-> << >>,
     centralBankAreasRef |-> << >>,
     timer |-> NoTimer, nextId |-> n, log |-> << >>]

Commit(s) ==
    /\ chartRef' = s.chartRef
    /\ surface' = s.surface
    /\ markers' = s.markers
    /\ candleSeriesRef' = s.candleSeriesRef
    /\ volumeSeriesRef' = s.volumeSeriesRef
    /\ maSeriesRefs' = s.maSeriesRefs
    /\ bbSeriesRefs' = s.bbSeriesRefs
    /\ sarSeriesRef' = s.sarSeriesRef
    /\ vwapSeriesRef' = s.vwapSeriesRef
    /\ pivotSeriesRefs' = s.pivotSeriesRefs
    /\ fractalMarkersRef' = s.fractalMarkersRef
    /\ strokeLinesRef' = s.strokeLinesRef
    /\ segmentLinesRef' = s.segmentLinesRef
    /\ centralBankAreasRef' = s.centralBankAreasRef
    /\ timer' = s.timer
    /\ nextId' = s.nextId
    /\ log' = s.log

\* useState initial value
AllOff == [k \in Keys |-> FALSE]

\* Main: height={isMobile ? 300 : 500}, isMobile = innerWidth <= 768
heightFor(w) == IF w <= MobileWidth THEN MobileHeight ELSE DesktopHeight

\* the effects whose dependencies include indicators and candles, in
\* declaration order; each set holds the one state its effect leaves
dataEffects(s, c, ind, vis) ==
    LET candlesDone == { updateCandles(s, c) }
        maDone == { drawMA(x, c, ind, vis) : x \in candlesDone }
        bbDone == { drawBB(x, c, ind, vis) : x \in maDone }
        sarDone == { drawSAR(x, c, ind, vis) : x \in bbDone }
        vwapDone == { drawVWAP(x, c, ind, vis) : x \in sarDone }
        pivotDone == { drawPivot(x, c, ind, vis) : x \in vwapDone }
        fractalsDone == { scheduleFractals(x, c, ind, vis) : x \in pivotDone }
        strokesDone == { drawStrokes(x, c, ind, vis) : x \in fractalsDone }
        segmentsDone == { drawSegments(x, c, ind, vis) : x \in strokesDone }
        banksDone == { drawCentralBanks(x, c, ind, vis) : x \in segmentsDone }
    IN CHOOSE r \in banksDone : TRUE

\* the effect whose dependency is indicatorVisibility[key]; the moving-average
\* effect depends on the whole indicatorVisibility object and runs first
toggleEffects(s, c, ind, vis, key) ==
    LET s1 == drawMA(s, c, ind, vis)
    IN CASE key = "bb" -> drawBB(s1, c, ind, vis)
         [] key = "sar" -> drawSAR(s1, c, ind, vis)
         [] key = "vwap" -> drawVWAP(s1, c, ind, vis)
         [] key = "pivotPoints" -> drawPivot(s1, c, ind, vis)
         [] key = "fractals" -> scheduleFractals(s1, c, ind, vis)
         [] key = "strokes" -> drawStrokes(s1, c, ind, vis)
         [] key = "segments" -> drawSegments(s1, c, ind, vis)
         [] key = "centralBanks" -> drawCentralBanks(s1, c, ind, vis)
         [] OTHER -> s1

\* the first render of an instance: every effect runs, in declaration order
mountEffects(n, container, w, c, ind) ==
    dataEffects(initChart(Fresh(n), container, w), c, ind, AllOff)

\* height or theme changed: the init effect's cleanup, then its body
rebuild(s, container, w) == initChart(cleanupChart(s), container, w)

-----------------------------------------------------------------------------
(* Events *)

Widths == { 600, 1000, 1200 }
Symbols == { "", "AAPL" }
Themes == { "light", "dark" }

\* the history of the last event
Record(type, key) ==
    /\ events < MaxEvents
    /\ events' = events + 1
    /\ last' = [type |-> type, key |-> key, pre |-> Cur, vis |-> indicatorVisibility,
                candles |-> candles, indicators |-> indicators,
                before |-> [type |-> last.type, key |-> last.key, vis |-> last.vis]]

\* an event handled within one reading of the clock
Step(type, key) == Record(type, key) /\ UNCHANGED << now, tzOffset >>

\* the refs and the surface after the effects of the first render
InitRefs(s) ==
    /\ chartRef = s.chartRef
    /\ surface = s.surface
    /\ markers = s.markers
    /\ candleSeriesRef = s.candleSeriesRef
    /\ volumeSeriesRef = s.volumeSeriesRef
    /\ maSeriesRefs = s.maSeriesRefs
    /\ bbSeriesRefs = s.bbSeriesRefs
    /\ sarSeriesRef = s.sarSeriesRef
    /\ vwapSeriesRef = s.vwapSeriesRef
    /\ pivotSeriesRefs = s.pivotSeriesRefs
    /\ fractalMarkersRef = s.fractalMarkersRef
    /\ strokeLinesRef = s.strokeLinesRef
    /\ segmentLinesRef = s.segmentLinesRef
    /\ centralBankAreasRef = s.centralBankAreasRef
    /\ timer = s.timer
    /\ nextId = s.nextId
    /\ log = s.log

\* the first render, with props c and ind, in a zone at offset from UTC
InitFrom(c, ind, offset) ==
    /\ now = 86400 * 20000
    /\ tzOffset = offset
    /\ mounted = TRUE
    /\ symbol = "AAPL"
    /\ theme = "light"
    /\ winWidth = 1200
    /\ height = heightFor(1200)
    /\ candles = c
    /\ indicators = ind
    /\ containerRef = 1
    /\ hasSetMarkers \in BOOLEAN
    /\ indicatorVisibility = AllOff
    /\ InitRefs(mountEffects(2, 1, 1200, candles, indicators))
    /\ last = [type |-> "mount", key |-> "", pre |-> Fresh(2), vis |-> AllOff,
               candles |-> Absent, indicators |-> Absent,
               before |-> [type |-> "", key |-> "", vis |-> AllOff]]
    /\ events = 0

InitWith(name) == InitFrom(Snapshot(name).candles, Snapshot(name).indicators, 0)

Init == InitWith("full")

\* the end-to-end scenario starts from sixty daily bars
InitE2E == InitWith("long")

(* new props from the parent: analysisResult changed *)
DataArrival(name) ==
    /\ mounted
    /\ candles.def \/ Snapshot(name).candles.def
    /\ Step("data", name)
    /\ candles' = Snapshot(name).candles
    /\ indicators' = Snapshot(name).indicators
    /\ Commit(dataEffects(Cur, Snapshot(name).candles, Snapshot(name).indicators,
                          indicatorVisibility))
    /\ UNCHANGED << mounted, symbol, height, theme, winWidth, containerRef,
                    hasSetMarkers, indicatorVisibility >>

\* a button that switches its flag on and never off
toggleIndicatorOn(vis, key) == [vis EXCEPT ![key] = TRUE]

(* toggleIndicator(key), from a button of the control panel *)
toggleIndicator(vis, key) == [vis EXCEPT ![key] = ~vis[key]]

Toggle(key) ==
    /\ mounted
    /\ symbol # ""
    /\ key \in ChanlunKeys => hasChanlunData(indicators)
    /\ Step("toggle", key)
    /\ indicatorVisibility' = toggleIndicator(indicatorVisibility, key)
    /\ Commit(toggleEffects(Cur, candles, indicators,
                            toggleIndicator(indicatorVisibility, key), key))
    /\ UNCHANGED << mounted, symbol, height, theme, candles, indicators, winWidth,
                    containerRef, hasSetMarkers >>

(* window resize: the chart's handleResize, then Main's (isMobile, height) *)
handleResize(s, container, w) ==
    IF container # Null /\ s.chartRef.id # Null
    THEN [s EXCEPT !.chartRef.width = w]
    ELSE s

Resize(w) ==
    /\ mounted
    /\ w # winWidth
    /\ Step("resize", "")
    /\ winWidth' = w
    /\ height' = heightFor(w)
    /\ Commit(IF heightFor(w) # height
              THEN rebuild(handleResize(Cur, containerRef, w), containerRef, w)
              ELSE handleResize(Cur, containerRef, w))
    /\ UNCHANGED << mounted, symbol, theme, candles, indicators, containerRef,
                    hasSetMarkers, indicatorVisibility >>

\* a rebuild that also puts the flags back to their initial value
ThemeChangeResets(th) ==
    /\ mounted
    /\ th # theme
    /\ Step("theme", th)
    /\ theme' = th
    /\ indicatorVisibility' = AllOff
    /\ Commit(rebuild(Cur, containerRef, winWidth))
    /\ UNCHANGED << mounted, symbol, height, candles, indicators, winWidth,
                    containerRef, hasSetMarkers >>

(* the theme prop changes *)
ThemeChange(th) ==
    /\ mounted
    /\ th # theme
    /\ Step("theme", th)
    /\ theme' = th
    /\ Commit(rebuild(Cur, containerRef, winWidth))
    /\ UNCHANGED << mounted, symbol, height, candles, indicators, winWidth,
                    containerRef, hasSetMarkers, indicatorVisibility >>

(* the symbol prop changes: with an empty symbol the placeholder is        *)
(* rendered instead of the panel and the container; no effect depends on   *)
(* symbol                                                                  *)
SymbolChange(sym) ==
    /\ mounted
    /\ sym # symbol
    /\ Step("symbol", sym)
    /\ symbol' = sym
    /\ containerRef' = IF sym = "" THEN Null ELSE nextId
    /\ Commit([Cur EXCEPT !.nextId = IF sym = "" THEN @ ELSE @ + 1])
    /\ UNCHANGED << mounted, height, theme, candles, indicators, winWidth,
                    hasSetMarkers, indicatorVisibility >>

(* the fractal setTimeout callback *)
TimerFire ==
    /\ mounted
    /\ timer.pending
    /\ Step("timer", "")
    /\ Commit(fireTimer(Cur, hasSetMarkers))
    /\ UNCHANGED << mounted, symbol, height, theme, candles, indicators, winWidth,
                    containerRef, hasSetMarkers, indicatorVisibility >>

(* unmount: the cleanups of the init effect and of the fractal effect *)
Unmount ==
    /\ mounted
    /\ Step("unmount", "")
    /\ mounted' = FALSE
    /\ containerRef' = Null
    /\ Commit([cleanupChart(Cur) EXCEPT !.timer = NoTimer])
    /\ UNCHANGED << symbol, height, theme, candles, indicators, winWidth,
                    hasSetMarkers, indicatorVisibility >>

(* a new instance of the component is mounted *)
Mount(sym, name) ==
    /\ ~mounted
    /\ Step("mount", name)
    /\ mounted' = TRUE
    /\ symbol' = sym
    /\ candles' = Snapshot(name).candles
    /\ indicators' = Snapshot(name).indicators
    /\ indicatorVisibility' = AllOff
    /\ containerRef' = IF sym = "" THEN Null ELSE nextId
    /\ Commit(mountEffects(nextId + 1, IF sym = "" THEN Null ELSE nextId, winWidth,
                           Snapshot(name).candles, Snapshot(name).indicators))
    /\ UNCHANGED << height, theme, winWidth, hasSetMarkers >>

Next ==
    \/ \E name \in SnapshotNames : DataArrival(name)
    \/ \E key \in Keys : Toggle(key)
    \/ \E w \in Widths : Resize(w)
    \/ \E th \in Themes : ThemeChange(th)
    \/ \E sym \in Symbols : SymbolChange(sym)
    \/ TimerFire
    \/ Unmount
    \/ \E sym \in Symbols, name \in SnapshotNames : Mount(sym, name)

Spec == Init /\ [][Next]_vars

\* the end-to-end scenario: data arrivals, the moving-average, Bollinger and fractal
\* buttons, and the fractal timer
E2EKeys == { "ma5", "ma10", "ma20", "ma50", "bb", "fractals" }

NextE2E ==
    \/ \E name \in E2ENames : DataArrival(name)
    \/ \E key \in E2EKeys : Toggle(key)
    \/ TimerFire

SpecE2E == InitE2E /\ [][NextE2E]_vars

(* Time strings.  The candles of one snapshot come from one backend and     *)
(* have one shape, which the Date constructor of the engine accepts ("iso") *)
(* or rejects ("ymd"); any of them can be unusable ("bad").  The sequences  *)
(* are strictly increasing in the day and hour they name.                   *)

TimeDays == { 1, 2 }
TimeHours == { 0, 9 }
TzOffsets == { 0 - 14 * 3600, 0, 12 * 3600 }

\* a names a day and hour before those of b
TimeBefore(a, b) ==
    \/ a.y < b.y
    \/ a.y = b.y /\ a.m < b.m
    \/ a.y = b.y /\ a.m = b.m /\ a.d < b.d
    \/ a.y = b.y /\ a.m = b.m /\ a.d = b.d /\ a.hh < b.hh

TimeStrings(fmt) ==
    { [fmt |-> f, y |-> 1970, m |-> 1, d |-> d, hh |-> h] :
        f \in { fmt, "bad" }, d \in TimeDays, h \in TimeHours }

TimeSeqs ==
    { ts \in UNION { [1..TimeLen -> TimeStrings(fmt)] : fmt \in { "iso", "ymd" } } :
        \A i \in 1..(TimeLen - 1) : TimeBefore(ts[i], ts[i + 1]) }

\* candles with the given time strings
BarsAt(times, base) == [i \in 1..Len(times) |-> [Bar(i, base) EXCEPT !.time = times[i]]]

\* the indicators that come with them: a SAR scalar, a stroke, a fractal
IndTime == [IndAlt EXCEPT !.sar = 19]

InitTime ==
    \E ts \in TimeSeqs, offset \in TzOffsets :
        InitFrom(Given(BarsAt(ts, 20)), Given(IndTime), offset)

(* Date.now() has advanced *)
Tick ==
    /\ mounted
    /\ Record("tick", "")
    /\ now' = now + 1
    /\ Commit([Cur EXCEPT !.log = log])
    /\ UNCHANGED << mounted, symbol, height, theme, candles, indicators, winWidth,
                    containerRef, hasSetMarkers, indicatorVisibility, tzOffset >>

TimeKeys == { "sar", "strokes", "fractals" }

\* the overlays that write candle times, the fractal timer and the clock.
\* Spec and SpecE2E leave the clock out: their time strings are all accepted
\* by the Date constructor, and parseTime reads the clock for no other.
NextTime ==
    \/ \E key \in TimeKeys : Toggle(key)
    \/ TimerFire
    \/ Tick

SpecTime == InitTime /\ [][NextTime]_vars

-----------------------------------------------------------------------------
(* Views of the state used by the properties *)

OverlayCats == { "ma", "bb", "sar", "vwap", "pivot", "strokes", "segments", "centralBanks" }

Range(f) == { f[x] : x \in DOMAIN f }

\* the handles a registry holds
RegistryIn(s, cat) ==
    CASE cat = "ma" -> Range(s.maSeriesRefs)
      [] cat = "bb" -> Range(s.bbSeriesRefs)
      [] cat = "sar" -> IF s.sarSeriesRef = Null THEN {} ELSE { s.sarSeriesRef }
      [] cat = "vwap" -> IF s.vwapSeriesRef = Null THEN {} ELSE { s.vwapSeriesRef }
      [] cat = "pivot" -> Range(s.pivotSeriesRefs)
      [] cat = "strokes" -> Range(s.strokeLinesRef)
      [] cat = "segments" -> Range(s.segmentLinesRef)
      [] cat = "centralBanks" -> Range(s.centralBankAreasRef)
Registry(cat) == RegistryIn(Cur, cat)

\* the number of places of a registry that hold handle h
HeldIn(s, cat, h) ==
    CASE cat = "ma" -> Cardinality({ k \in DOMAIN s.maSeriesRefs : s.maSeriesRefs[k] = h })
      [] cat = "bb" -> Cardinality({ k \in DOMAIN s.bbSeriesRefs : s.bbSeriesRefs[k] = h })
      [] cat = "sar" -> IF s.sarSeriesRef = h THEN 1 ELSE 0
      [] cat = "vwap" -> IF s.vwapSeriesRef = h THEN 1 ELSE 0
      [] cat = "pivot" -> Cardinality({ k \in DOMAIN s.pivotSeriesRefs : s.pivotSeriesRefs[k] = h })
      [] cat = "strokes" -> Cardinality({ i \in DOMAIN s.strokeLinesRef : s.strokeLinesRef[i] = h })
      [] cat = "segments" -> Cardinality({ i \in DOMAIN s.segmentLinesRef : s.segmentLinesRef[i] = h })
      [] cat = "centralBanks" ->
            Cardinality({ i \in DOMAIN s.centralBankAreasRef : s.centralBankAreasRef[i] = h })

\* the series of a category that are live on the surface
LiveOfIn(s, cat) == { h \in DOMAIN s.surface : s.surface[h].cat = cat }
LiveOf(cat) == LiveOfIn(Cur, cat)

\* the visibility flag a series belongs to
visKeyOf(series) ==
    CASE series.cat = "ma" ->
            (CASE series.key = 5 -> "ma5" [] series.key = 10 -> "ma10"
               [] series.key = 20 -> "ma20" [] series.key = 50 -> "ma50")
      [] series.cat = "bb" -> "bb"
      [] series.cat = "pivot" -> "pivotPoints"
      [] OTHER -> series.cat
LiveOfKeyIn(s, key) == { h \in DOMAIN s.surface : visKeyOf(s.surface[h]) = key }
LiveOfKey(key) == LiveOfKeyIn(Cur, key)

\* the handles created by the last event
IsNew(h) == h >= last.pre.nextId

-----------------------------------------------------------------------------
(* Properties *)

\* C1: every overlay series live on the surface is held exactly once in the
\* registry of its category, also the two series added for a central bank
\* whose high or low is undefined.
C1_NoLeakNoDuplicate ==
    \A cat \in OverlayCats : \A h \in LiveOf(cat) : HeldIn(Cur, cat, h) = 1

\* C2: a toggle of one category leaves the live handles of every other
\* category the same handles as before (none disposed, none created again).
C2_ToggleTouchesOneCategory ==
    last.type = "toggle" =>
        \A key \in Keys \ { last.key } :
            /\ LiveOfKey(key) = LiveOfKeyIn(last.pre, key)
            /\ key = "fractals" => markers = last.pre.markers

\* C3: once the passes of the last event have run (no fractal timer is
\* pending), a category whose flag is off has no live series, and no marker
\* when the category is fractals.
C3_OffMeansNothingLive ==
    (mounted /\ ~timer.pending) =>
        \A key \in Keys :
            ~indicatorVisibility[key] =>
                /\ LiveOfKey(key) = {}
                /\ key = "fractals" => markers = << >>

\* C4: within the pass of a category every series of that category that was
\* live before the pass is removed before the first new one is added, so an
\* old and a new series of one category are never live together.
C4_DisposalPrecedesCreation ==
    \A i \in DOMAIN log :
        log[i].op = "add" =>
            \A h \in LiveOfIn(last.pre, log[i].cat) :
                \E j \in 1..(i - 1) :
                    \/ log[j].op = "remove" /\ log[j].h = h
                    \/ log[j].op = "destroy"

\* two values of a prop that render alike: both undefined, or equal content
SameProp(a, b) == a.def = b.def /\ (a.def => a.val = b.val)

\* the series records of a category that are live
SeriesOfIn(s, cat) == { s.surface[h] : h \in LiveOfIn(s, cat) }

\* C5: after a data update, also one to an empty candle list or to undefined
\* indicators, every live overlay series was created by the passes of that
\* update, and no marker of the previous snapshot is left once no fractal
\* pass is pending.
C5_NewerPassSupersedes ==
    last.type = "data" =>
        /\ \A cat \in OverlayCats : \A h \in LiveOf(cat) : IsNew(h)
        /\ ~timer.pending => markers = << >>

\* C6: running the passes again with the same candles, indicators and
\* visibility leaves, per category, the number of live series and their
\* data as they were.
C6_RenderIdempotent ==
    ( /\ last.type = "data"
      /\ SameProp(last.candles, candles)
      /\ SameProp(last.indicators, indicators) ) =>
        \A cat \in OverlayCats :
            /\ Cardinality(LiveOf(cat)) = Cardinality(LiveOfIn(last.pre, cat))
            /\ SeriesOfIn(Cur, cat) = SeriesOfIn(last.pre, cat)

\* C7: when the surface is torn down (unmount, or the rebuild after a height
\* or theme change) every series that was live is released and no registry
\* holds a handle afterwards.
C7_TeardownReleasesAll ==
    (\E i \in DOMAIN log : log[i].op = "destroy") =>
        /\ \A h \in DOMAIN last.pre.surface : h \notin DOMAIN surface
        /\ \A cat \in OverlayCats : Registry(cat) = {}

\* C8: when removeSeries raises during the disposal of a category, the pass
\* still completes, the registry of that category keeps none of the handles
\* it held, and the new series is there when the flag is on.
C8_DisposalNeverThrows ==
    \A i \in DOMAIN log :
        log[i].op = "throw" =>
            /\ \A h \in Registry(log[i].cat) : IsNew(h) /\ h \in DOMAIN surface
            /\ (log[i].cat = "sar" /\ indicatorVisibility.sar /\ indicators.val.sar # Undefined)
                   => sarSeriesRef # Null
            /\ (log[i].cat = "vwap" /\ indicatorVisibility.vwap /\ indicators.val.vwap # Undefined)
                   => vwapSeriesRef # Null

MAKeys == { "ma5", "ma10", "ma20", "ma50" }
periodOf(key) ==
    CASE key = "ma5" -> 5 [] key = "ma10" -> 10 [] key = "ma20" -> 20 [] key = "ma50" -> 50

Max0(x) == IF x > 0 THEN x ELSE 0

\* the sum of the closes of the candles lo .. hi (positions 1 .. n)
RECURSIVE CloseSum(_, _, _)
CloseSum(cs, lo, hi) == IF lo > hi THEN 0 ELSE cs[hi].close + CloseSum(cs, lo, hi - 1)

\* the last event toggled a moving-average flag on, every flag being off before
ToggledMAOn ==
    /\ last.type = "toggle"
    /\ last.key \in MAKeys
    /\ last.vis = AllOff
    /\ candles.def

\* the last two events toggled one moving-average flag on, from all off, and off again
ToggledMAOff ==
    /\ last.type = "toggle"
    /\ last.key \in MAKeys
    /\ indicatorVisibility = AllOff
    /\ last.before.type = "toggle"
    /\ last.before.key = last.key
    /\ last.before.vis = AllOff

CreatedByLast == DOMAIN surface \ DOMAIN last.pre.surface

\* the series that were live before the last event are live, and unchanged
OldSeriesKept ==
    \A g \in DOMAIN last.pre.surface : g \in DOMAIN surface /\ surface[g] = last.pre.surface[g]

\* the second toggle removed the series of the flag and nothing else
C9_OffReturns ==
    ToggledMAOff =>
        /\ DOMAIN surface = DOMAIN last.pre.surface \ LiveOfKeyIn(last.pre, last.key)
        /\ \A g \in DOMAIN surface : surface[g] = last.pre.surface[g]
        /\ maSeriesRefs = EmptyMap

\* C9 as stated: toggling MA p on with n candles registers exactly one new
\* series, with max(0, n - p + 1) points; toggling it off again disposes it
\* and returns the set of live series to what it was.
C9_AlwaysOneSeries ==
    /\ ToggledMAOn =>
          \E h \in CreatedByLast :
             /\ CreatedByLast = { h }
             /\ surface[h].cat = "ma" /\ surface[h].key = periodOf(last.key)
             /\ Len(surface[h].data) = Max0(Len(candles.val) - periodOf(last.key) + 1)
    /\ C9_OffReturns

\* C9, amended: with a chart, n > 0 candles and indicators that supply maP,
\* toggling MA p on from all flags off registers exactly one new series when
\* p <= n, with n - p + 1 points, the k-th carrying the time of candle
\* k + p - 1 and the mean of the closes of candles k .. k + p - 1, and
\* registers no series when p > n (or maP is missing, or there is no data);
\* toggling it off again disposes that series and nothing else.
C9_ToggleMA ==
    /\ ToggledMAOn =>
          LET p == periodOf(last.key)
              n == Len(candles.val)
          IN IF ~overlayGuard(Cur, candles, indicators)
                /\ maValue(indicators.val, p) # Undefined /\ p <= n
             THEN \E h \in CreatedByLast :
                     /\ CreatedByLast = { h }
                     /\ maSeriesRefs = (p :> h)
                     /\ surface[h].cat = "ma" /\ surface[h].key = p
                     /\ Len(surface[h].data) = n - p + 1
                     /\ \A k \in 1..(n - p + 1) :
                           /\ surface[h].data[k].time = parseTime(candles.val[k + p - 1].time)
                           /\ surface[h].data[k].value.den = p
                           /\ surface[h].data[k].value.num = CloseSum(candles.val, k, k + p - 1)
                     /\ OldSeriesKept
             ELSE surface = last.pre.surface /\ maSeriesRefs = last.pre.maSeriesRefs
    /\ C9_OffReturns

\* sixty bars, ma20 toggled on and off again: the state after the second
\* toggle, the first having registered one series of 41 points
C9_Witness ==
    /\ ToggledMAOff
    /\ last.key = "ma20"
    /\ candles.def /\ Len(candles.val) = LongLen
    /\ \E h \in LiveOfKeyIn(last.pre, "ma20") :
          /\ LiveOfKeyIn(last.pre, "ma20") = { h }
          /\ Len(last.pre.surface[h].data) = LongLen - 20 + 1
    /\ LiveOfKey("ma20") = {}

\* C10: a pass adds and registers an MA series of period p only when the
\* flag of p is true and p <= len(candles), and the series it adds is not
\* empty; a pass that runs with the flag false or p > len(candles) leaves
\* nothing registered and nothing live for p.
C10_MAOnlyWhenVisibleAndLongEnough ==
    /\ \A h \in DOMAIN surface :
          (IsNew(h) /\ surface[h].cat = "ma") =>
             /\ maVisible(indicatorVisibility, surface[h].key)
             /\ candles.def /\ surface[h].key <= Len(candles.val)
             /\ Len(surface[h].data) > 0
             /\ surface[h].key \in DOMAIN maSeriesRefs
             /\ maSeriesRefs[surface[h].key] = h
    /\ \A p \in DOMAIN maSeriesRefs :
          IsNew(maSeriesRefs[p]) => maSeriesRefs[p] \in DOMAIN surface
    /\ (last.type \in { "toggle", "data" } /\ ~overlayGuard(Cur, candles, indicators)) =>
          \A p \in Range(MAPeriods) :
             (~maVisible(indicatorVisibility, p) \/ p > Len(candles.val)) =>
                /\ p \notin DOMAIN maSeriesRefs
                /\ \A h \in DOMAIN surface : ~(surface[h].cat = "ma" /\ surface[h].key = p)

\* the flag of ma20 is on with ten candles, the pass has run and registered
\* nothing for 20, while ma5 has its series
C10_Witness ==
    /\ last.type = "toggle"
    /\ indicatorVisibility.ma20 /\ indicatorVisibility.ma5
    /\ candles.def /\ Len(candles.val) = MaxCandles
    /\ ~overlayGuard(Cur, candles, indicators)
    /\ DOMAIN maSeriesRefs = { 5 }
    /\ maSeriesRefs[5] \in DOMAIN surface

-----------------------------------------------------------------------------
(* Strokes and segments *)

\* the pass of the category of flag key ran in the last event, past its guard
PassRan(key) ==
    /\ mounted
    /\ last.type = "data" \/ (last.type = "toggle" /\ last.key = key)
    /\ ~overlayGuard(Cur, candles, indicators)

\* both indices in [0, len), different, start time strictly before end time
ValidLine(cs, line) ==
    /\ line.start_index # Undefined /\ line.end_index # Undefined
    /\ InRange(cs, line.start_index) /\ InRange(cs, line.end_index)
    /\ line.start_index # line.end_index
    /\ parseTime(At(cs, line.start_index).time) < parseTime(At(cs, line.end_index).time)

ValidLines(cs, lines) == SelectSeq(lines, LAMBDA line : ValidLine(cs, line))

\* the live series of cat are those of reg, one per valid line, in order,
\* each with two points: the start candle's time, then the end candle's
LinesMaterialized(reg, cat, lines) ==
    LET want == ValidLines(candles.val, lines)
    IN /\ Len(reg) = Len(want)
       /\ LiveOf(cat) = Range(reg)
       /\ Cardinality(LiveOf(cat)) = Len(want)
       /\ \A i \in 1..Len(want) :
             LET d == surface[reg[i]].data
             IN /\ Len(d) = 2
                /\ d[1].time = parseTime(At(candles.val, want[i].start_index).time)
                /\ d[2].time = parseTime(At(candles.val, want[i].end_index).time)
                /\ d[1].time < d[2].time
                /\ surface[reg[i]].key = want[i].type

\* C11: after a stroke (segment) pass with the flag on, the live stroke
\* (segment) series are exactly one per stroke (segment) whose indices are
\* both in [0, len(candles)), differ, and whose start candle's canonical
\* time is strictly less than the end candle's; every other element is
\* skipped without stopping the rest, and each series has exactly two
\* points, start then end.
C11_LinesOnlyWhenValid ==
    /\ (PassRan("strokes") /\ indicatorVisibility.strokes) =>
           LinesMaterialized(strokeLinesRef, "strokes", indicators.val.strokes)
    /\ (PassRan("segments") /\ indicatorVisibility.segments) =>
           LinesMaterialized(segmentLinesRef, "segments", indicators.val.segments)

\* five strokes, of which the second (equal indices), the third (index out
\* of range) and the fourth (end before start) are skipped: two series
C11_Witness ==
    /\ PassRan("strokes") /\ indicatorVisibility.strokes
    /\ Len(indicators.val.strokes) = 5
    /\ Len(strokeLinesRef) = 2
    /\ \A i \in 1..2 : strokeLinesRef[i] \in DOMAIN surface
    /\ surface[strokeLinesRef[2]].data[1].time = parseTime(At(candles.val, 2).time)

-----------------------------------------------------------------------------
(* Fractal markers *)

\* the fractals whose index is in [0, len(candles)), in input order
InRangeFractals(cs, fractals) ==
    SelectSeq(fractals, LAMBDA f : f.index >= 0 /\ f.index < Len(cs))

\* the fractal callback ran in the last event, on a base series that is live
\* on the chart and has setMarkers
FractalPassRan ==
    /\ last.type = "timer"
    /\ hasSetMarkers
    /\ candleSeriesRef \in DOMAIN surface
    /\ candles.def /\ indicators.def

-----------------------------------------------------------------------------
(* Central banks *)

\* both indices in [0, len) and the range start .. end not empty
SpannedBank(cs, bank) ==
    /\ bank.start_index # Undefined /\ bank.end_index # Undefined
    /\ InRange(cs, bank.start_index) /\ InRange(cs, bank.end_index)
    /\ bank.start_index <= bank.end_index

\* a spanned bank with high and low
RenderableBank(cs, bank) ==
    SpannedBank(cs, bank) /\ bank.high # Undefined /\ bank.low # Undefined

\* C13: after a central-bank pass with the flag on, the pass has added
\* series to the surface only for the banks whose range is not inverted
\* (two for each), and the registry holds two handles for each such bank
\* that has high and low, and none for a bank with startIndex > endIndex.
C13_InvertedBankSkipped ==
    (PassRan("centralBanks") /\ indicatorVisibility.centralBanks) =>
        LET banks == indicators.val.central_banks
            spanned == SelectSeq(banks, LAMBDA b : SpannedBank(candles.val, b))
            renderable == SelectSeq(banks, LAMBDA b : RenderableBank(candles.val, b))
        IN /\ Cardinality({ h \in LiveOf("centralBanks") : IsNew(h) }) = 2 * Len(spanned)
           /\ Len(centralBankAreasRef) = 2 * Len(renderable)

\* the banks the pass registers two handles for, in input order
RegisteredBanks(cs, banks) ==
    SelectSeq(banks, LAMBDA b : /\ b.start_index # Undefined /\ b.end_index # Undefined
                                /\ InRange(cs, b.start_index) /\ InRange(cs, b.end_index)
                                /\ b.high # Undefined /\ b.low # Undefined)

\* C14: after a central-bank pass with the flag on, a bank with
\* 0 <= startIndex <= endIndex < len(candles) and defined high and low has
\* exactly two series, each with endIndex - startIndex + 1 points, one per
\* candle index of [startIndex, endIndex] in order, at that candle's time;
\* every point of the first has value high, every point of the second low.
C14_BankSpansItsRange ==
    (PassRan("centralBanks") /\ indicatorVisibility.centralBanks) =>
        LET cs == candles.val
            drawn == RegisteredBanks(cs, indicators.val.central_banks)
        IN /\ Len(centralBankAreasRef) = 2 * Len(drawn)
           /\ \A k \in 1..Len(drawn) :
                 RenderableBank(cs, drawn[k]) =>
                    LET n == drawn[k].end_index - drawn[k].start_index + 1
                        upper == centralBankAreasRef[2 * k - 1]
                        lower == centralBankAreasRef[2 * k]
                    IN /\ upper \in DOMAIN surface /\ lower \in DOMAIN surface
                       /\ upper # lower
                       /\ HeldIn(Cur, "centralBanks", upper) = 1
                       /\ HeldIn(Cur, "centralBanks", lower) = 1
                       /\ Len(surface[upper].data) = n
                       /\ Len(surface[lower].data) = n
                       /\ \A i \in 1..n :
                             LET time == parseTime(At(cs, drawn[k].start_index + i - 1).time)
                             IN /\ surface[upper].data[i] = [time |-> time, value |-> Num(drawn[k].high)]
                                /\ surface[lower].data[i] = [time |-> time, value |-> Num(drawn[k].low)]

\* the bank of candles 1 .. 3 with high 16 and low 12: two series of three points
C14_Witness ==
    /\ PassRan("centralBanks") /\ indicatorVisibility.centralBanks
    /\ Len(candles.val) = MaxCandles
    /\ Len(centralBankAreasRef) >= 2
    /\ centralBankAreasRef[1] \in DOMAIN surface
    /\ Len(surface[centralBankAreasRef[1]].data) = 3
    /\ surface[centralBankAreasRef[1]].data[3].value = Num(16)
    /\ surface[centralBankAreasRef[2]].data[1].value = Num(12)

-----------------------------------------------------------------------------
(* Visibility *)

\* C15: on mount every category flag is false; toggleIndicator(k) negates
\* flag k and leaves every other flag as it was, so two consecutive toggles
\* of k restore the flags.
C15_VisibilityStateMachine ==
    /\ DOMAIN indicatorVisibility = Keys
    /\ last.type = "mount" => \A k \in Keys : indicatorVisibility[k] = FALSE
    /\ last.type = "toggle" =>
          \A k \in Keys :
             indicatorVisibility[k] = (IF k = last.key THEN ~last.vis[k] ELSE last.vis[k])
    /\ ( /\ last.type = "toggle" /\ last.before.type = "toggle"
         /\ last.before.key = last.key ) => indicatorVisibility = last.before.vis

\* a flag toggled on and off again, another flag being on
C15_Witness ==
    /\ last.type = "toggle" /\ last.before.type = "toggle"
    /\ last.before.key = last.key
    /\ ~indicatorVisibility[last.key]
    /\ last.vis[last.key]
    /\ \E k \in Keys \ { last.key } : indicatorVisibility[k]

\* C16: a data arrival, a window resize, a rebuild of the surface (height or
\* theme change), a timer callback, a symbol change and the passes they run
\* leave every visibility flag as it was; a remount starts from all-false.
C16_OnlyTogglesChangeVisibility ==
    /\ last.type \in { "data", "resize", "theme", "timer", "symbol" } =>
          indicatorVisibility = last.vis
    /\ (last.type = "mount" /\ events > 0) => indicatorVisibility = AllOff

\* the surface has been rebuilt for a new theme while a flag was on
C16_Witness ==
    /\ last.type = "theme"
    /\ \E i \in DOMAIN log : log[i].op = "destroy"
    /\ \E k \in Keys : last.vis[k] /\ indicatorVisibility[k]

\* C17: a window resize changes only the geometry of the surface: the chart
\* is not rebuilt, and the base series and the live overlay series are the
\* same objects with the same data after the resize as before, also when
\* the resize flips isMobile and with it the height prop.
C17_ResizeOnlyGeometry ==
    last.type = "resize" =>
        /\ \A i \in DOMAIN log : log[i].op # "destroy"
        /\ chartRef.id = last.pre.chartRef.id
        /\ surface = last.pre.surface
        /\ markers = last.pre.markers

\* C18: when the host series has no setMarkers, the fractal callback changes
\* nothing but the pending timer, whatever the fractals and the flag: the
\* markers, the marker ref, the base series, every overlay series and every
\* registry are as before, and no call on the surface is made or raises.
C18_NoSetMarkersSkips ==
    (last.type = "timer" /\ ~hasSetMarkers) =>
        /\ Cur = [last.pre EXCEPT !.timer = NoTimer]
        /\ log = << >>

\* the callback has run with the flag on and fractals in range, and set nothing
C18_Witness ==
    /\ last.type = "timer" /\ ~hasSetMarkers
    /\ indicatorVisibility.fractals
    /\ candles.def /\ indicators.def
    /\ Len(InRangeFractals(candles.val, indicators.val.fractals)) > 0
    /\ markers = << >>

-----------------------------------------------------------------------------
(* Canonical times *)

\* parseTime takes the time string through the Date constructor or the split
Parseable(timeStr) == timeStr.fmt \in { "iso", "ymd" }

\* C19: for any two candle times of the snapshot that are both parseable (by
\* the Date constructor or by the Y-M-D split) and strictly ordered, the
\* canonical key of the earlier one is strictly less than the key of the
\* later one.
C19_ParseTimePreservesOrder ==
    candles.def =>
        \A i, j \in DOMAIN candles.val :
            LET a == candles.val[i].time
                b == candles.val[j].time
            IN (Parseable(a) /\ Parseable(b) /\ TimeBefore(a, b)) =>
                   parseTime(a) < parseTime(b)

\* C20: the times written to every series of the surface (candles, volume
\* and each overlay) are strictly increasing along the series, also when
\* time strings of the candle sequence are unparsable and take the clock.
C20_SeriesTimesIncrease ==
    \A h \in DOMAIN surface :
        \A i \in 1..(Len(surface[h].data) - 1) :
            surface[h].data[i].time < surface[h].data[i + 1].time

-----------------------------------------------------------------------------
(* Passes and events *)

\* the markers derived from the current candles, fractals and flag
ExpectedMarkers ==
    IF candles.def /\ indicators.def /\ indicatorVisibility.fractals
    THEN fractalMarkers(candles.val, indicators.val.fractals)
    ELSE << >>

\* C21: at the end of the event of a data arrival or a toggle no recompute
\* work is pending, that of the fractal markers included, and the markers
\* of the base series are those of the current data and flag.
C21_PassesAreSynchronous ==
    (mounted /\ last.type \in { "data", "toggle" }) =>
        /\ ~timer.pending
        /\ (hasSetMarkers /\ candleSeriesRef \in DOMAIN surface) => markers = ExpectedMarkers

-----------------------------------------------------------------------------
(* Moving averages and scalar overlays *)

\* the moving-average pass ran in the last event, past its guard
MAPassRan ==
    /\ mounted
    /\ last.type \in { "data", "toggle" }
    /\ ~overlayGuard(Cur, candles, indicators)

\* C22: the k-th point (k >= 0) of the MA series of period p carries the
\* canonical time of candle k + p - 1 and the sum of the closes of candles
\* k .. k + p - 1 divided by p; the series has len(candles) - p + 1 points,
\* so none for a candle index below p - 1.
C22_MAPointValues ==
    MAPassRan =>
        \A p \in DOMAIN maSeriesRefs :
            LET h == maSeriesRefs[p]
                cs == candles.val
            IN /\ h \in DOMAIN surface
               /\ Len(surface[h].data) = Len(cs) - p + 1
               /\ \A k \in 0..(Len(cs) - p) :
                     surface[h].data[k + 1] =
                        [time |-> parseTime(At(cs, k + p - 1).time),
                         value |-> [num |-> CloseSum(cs, k + 1, k + p), den |-> p]]

\* sixty bars with ma50 on: eleven points, the first at candle 49
C22_Witness ==
    /\ MAPassRan
    /\ Len(candles.val) = LongLen
    /\ 50 \in DOMAIN maSeriesRefs
    /\ maSeriesRefs[50] \in DOMAIN surface
    /\ Len(surface[maSeriesRefs[50]].data) = LongLen - 49
    /\ surface[maSeriesRefs[50]].data[1].time = parseTime(At(candles.val, 49).time)

\* the handles of map m are live series of cat, one per key of keys and no other
OnePerKey(m, cat, keys) ==
    /\ DOMAIN m = keys
    /\ \A k \in keys : m[k] \in DOMAIN surface /\ surface[m[k]].cat = cat /\ surface[m[k]].key = k
    /\ LiveOf(cat) = Range(m)
    /\ Cardinality(LiveOf(cat)) = Cardinality(keys)

\* C23: after a pass with the flag on, an MA period whose scalar is
\* undefined has no series, SAR (VWAP) has no series when sar (vwap) is
\* undefined, the pivot category has exactly one series per defined level,
\* and Bollinger has exactly three series when its three fields are defined
\* and none otherwise; the pass completes.
C23_UndefinedFieldSkipped ==
    /\ MAPassRan =>
          \A p \in Range(MAPeriods) :
             (maVisible(indicatorVisibility, p) /\ maValue(indicators.val, p) = Undefined) =>
                /\ p \notin DOMAIN maSeriesRefs
                /\ LiveOfKey(visKeyOf([cat |-> "ma", key |-> p])) = {}
    /\ (PassRan("sar") /\ indicatorVisibility.sar /\ indicators.val.sar = Undefined) =>
          LiveOf("sar") = {}
    /\ (PassRan("vwap") /\ indicatorVisibility.vwap /\ indicators.val.vwap = Undefined) =>
          LiveOf("vwap") = {}
    /\ (PassRan("pivotPoints") /\ indicatorVisibility.pivotPoints) =>
          OnePerKey(pivotSeriesRefs, "pivot",
                    { k \in Range(PivotKeys) : pivotValue(indicators.val, k) # Undefined })
    /\ (PassRan("bb") /\ indicatorVisibility.bb) =>
          IF \A k \in Range(BBKeys) : bbValue(indicators.val, k) # Undefined
          THEN OnePerKey(bbSeriesRefs, "bb", Range(BBKeys))
          ELSE OnePerKey(bbSeriesRefs, "bb", {})

\* the pivot pass has run with pivot, r1 and s1 defined and r2, r3, s2, s3
\* not: three series
C23_Witness ==
    /\ PassRan("pivotPoints") /\ indicatorVisibility.pivotPoints
    /\ indicators.val.pivot_r2 = Undefined /\ indicators.val.pivot_r1 # Undefined
    /\ DOMAIN pivotSeriesRefs = { "pivot", "r1", "s1" }
    /\ Cardinality(LiveOf("pivot")) = 3

\* series h is live and carries one point per candle, the i-th at the time of
\* candle i with value v
IsScalarLine(h, v) ==
    /\ h \in DOMAIN surface
    /\ Len(surface[h].data) = Len(candles.val)
    /\ \A i \in 1..Len(candles.val) :
          /\ surface[h].data[i].time = parseTime(At(candles.val, i - 1).time)
          /\ surface[h].data[i].value = [num |-> v, den |-> 1]

\* C24: after a pass, the SAR series, the VWAP series, each pivot level's
\* series and each Bollinger series has exactly len(candles) points, the i-th
\* with the time of candle i and the scalar of the snapshot as its value.
C24_ScalarBroadcast ==
    /\ (PassRan("sar") /\ indicatorVisibility.sar /\ indicators.val.sar # Undefined) =>
          IsScalarLine(sarSeriesRef, indicators.val.sar)
    /\ (PassRan("vwap") /\ indicatorVisibility.vwap /\ indicators.val.vwap # Undefined) =>
          IsScalarLine(vwapSeriesRef, indicators.val.vwap)
    /\ (PassRan("pivotPoints") /\ indicatorVisibility.pivotPoints) =>
          \A k \in DOMAIN pivotSeriesRefs :
             IsScalarLine(pivotSeriesRefs[k], pivotValue(indicators.val, k))
    /\ (PassRan("bb") /\ indicatorVisibility.bb) =>
          \A k \in DOMAIN bbSeriesRefs :
             IsScalarLine(bbSeriesRefs[k], bbValue(indicators.val, k))

\* the Bollinger pass has drawn three bands over ten candles
C24_Witness ==
    /\ PassRan("bb") /\ indicatorVisibility.bb
    /\ Len(candles.val) = MaxCandles
    /\ DOMAIN bbSeriesRefs = Range(BBKeys)
    /\ IsScalarLine(bbSeriesRefs["upper"], indicators.val.bb_upper)

\* the array the snapshot carries for a band
bbSeriesOf(ind, key) ==
    CASE key = "upper" -> ind.bb_upper_series [] key = "middle" -> ind.bb_middle_series
      [] key = "lower" -> ind.bb_lower_series

\* C25: when the snapshot carries a full-length array for each band, the
\* i-th point of a band's series has the i-th element of its array as value.
C25_BollingerArraysMapped ==
    (/\ PassRan("bb") /\ indicatorVisibility.bb
     /\ \A k \in Range(BBKeys) : Len(bbSeriesOf(indicators.val, k)) = Len(candles.val)) =>
        \A k \in DOMAIN bbSeriesRefs :
           /\ bbSeriesRefs[k] \in DOMAIN surface
           /\ Len(surface[bbSeriesRefs[k]].data) = Len(candles.val)
           /\ \A i \in 1..Len(candles.val) :
                 surface[bbSeriesRefs[k]].data[i].value =
                    [num |-> bbSeriesOf(indicators.val, k)[i], den |-> 1]

\* what the base candle series and the volume series of s hold
BaseOf(s) ==
    [candle |-> IF s.candleSeriesRef \in DOMAIN s.surface
                THEN << s.candleSeriesRef, s.surface[s.candleSeriesRef].data >> ELSE << >>,
     volume |-> IF s.volumeSeriesRef \in DOMAIN s.surface
                THEN << s.volumeSeriesRef, s.surface[s.volumeSeriesRef].data >> ELSE << >>]

\* the base series hold the data derived from the current candles
BaseCurrent ==
    /\ candleSeriesRef \in DOMAIN surface /\ volumeSeriesRef \in DOMAIN surface
    /\ surface[candleSeriesRef].data = formattedData(candles.val)
    /\ surface[volumeSeriesRef].data = volumeData(candles.val)

ContentOf(s) ==
    [base |-> { << s.surface[h].cat, s.surface[h].data >> :
                   h \in { x \in DOMAIN s.surface : s.surface[x].cat \in { "candle", "volume" } } },
     overlays |-> { << s.surface[h].cat, s.surface[h].key, s.surface[h].data >> :
                   h \in { x \in DOMAIN s.surface : s.surface[x].cat \in OverlayCats } },
     markers |-> s.markers]

\* C27: after the surface is rebuilt because height or theme changed, the new
\* surface shows what the old one showed: the same base data and the same
\* overlay series and markers.
C27_RebuildKeepsContent ==
    (/\ mounted /\ last.type \in { "resize", "theme" }
     /\ \E i \in DOMAIN log : log[i].op = "destroy"
     /\ chartRef.id # Null) =>
        ContentOf(Cur) = ContentOf(last.pre)

\* C28: while the component is mounted every handle held in a registry is a
\* series live on the current surface; in particular sarSeriesRef and
\* vwapSeriesRef are null when no SAR or VWAP series is live.
C28_NoDanglingHandles ==
    mounted =>
        /\ \A cat \in OverlayCats : \A h \in Registry(cat) : h \in DOMAIN surface
        /\ LiveOf("sar") = {} => sarSeriesRef = Null
        /\ LiveOf("vwap") = {} => vwapSeriesRef = Null

------------------------------------------------------------------------------
(* The fractal timer under fairness.  A callback that setTimeout has        *)
(* scheduled and that no cleanup has cleared runs once its 50 ms are over:  *)
(* it also runs when it is still pending after the last event handled.      *)

TimerFireLast ==
    /\ mounted
    /\ timer.pending
    /\ events = MaxEvents
    /\ events' = events + 1
    /\ last' = [type |-> "timer", key |-> "", pre |-> Cur, vis |-> indicatorVisibility,
                candles |-> candles, indicators |-> indicators,
                before |-> [type |-> last.type, key |-> last.key, vis |-> last.vis]]
    /\ Commit(fireTimer(Cur, hasSetMarkers))
    /\ UNCHANGED << mounted, symbol, height, theme, candles, indicators, winWidth,
                    containerRef, hasSetMarkers, indicatorVisibility, now, tzOffset >>

NextFair == Next \/ TimerFireLast

SpecFair == Init /\ [][NextFair]_vars /\ WF_vars(TimerFire \/ TimerFireLast)

\* a pending timer was scheduled by the current candles, fractals and flag,
\* on a mounted component
TimerInputsCurrent ==
    timer.pending =>
        /\ mounted
        /\ candles.def /\ indicators.def
        /\ timer.candles = candles.val
        /\ timer.fractals = indicators.val.fractals
        /\ timer.visible = indicatorVisibility.fractals

\* the base candle series is on the chart and has setMarkers
CanMark == mounted /\ hasSetMarkers /\ candleSeriesRef \in DOMAIN surface

\* C29: a pending fractal timer is always the one scheduled by the current
\* candles, fractals and flag of a mounted component (the timer of earlier
\* inputs was cleared; there is one timer slot), and, the timer being fair,
\* whenever the base series can carry markers the markers eventually equal
\* those derived from the current candles, fractals and flag.
C29_TimerSuperseded ==
    /\ []TimerInputsCurrent
    /\ [](CanMark => <>(~CanMark \/ markers = ExpectedMarkers))

\* C30: whenever the component is mounted with a non-empty symbol there is
\* a chart with its base candle series and its volume series, also after the
\* symbol went from empty to non-empty.
C30_ChartWhenSymbol ==
    (mounted /\ symbol # "") =>
        /\ chartRef.id # Null
        /\ candleSeriesRef \in DOMAIN surface
        /\ volumeSeriesRef \in DOMAIN surface

====
